---- MODULE Spec2Model ----
(***************************************************************************)
(* Model of the batch-scaling decision engine, class ScalingPredictor of   *)
(* src/src/batch_processor/scaling_predictor.py.backup.                    *)
(*                                                                         *)
(* Number representation.  The code computes on Python floats; the model   *)
(* computes on exact integers and rationals:                               *)
(*   - rates and scores given as inputs (high_confidence_rate,             *)
(*     stability_score, latest_confidence_rate, thresholds, targets) are   *)
(*     integers in thousandths (permille): 850 stands for 0.85;            *)
(*   - processing times given as inputs are integers in half-seconds:      *)
(*     3 stands for 1.5 s;                                                 *)
(*   - computed scores are rationals [num, den] in lowest terms;           *)
(*   - math.exp is a table of values rounded to 1/1000000 on the quarter   *)
(*     steps of its argument, the only arguments the input grid produces.  *)
(* The engine is called by a host that owns the snapshots: a call picks    *)
(* its arguments, the engine computes the return value, the host takes it  *)
(* and is free to call again.                                              *)
(***************************************************************************)
EXTENDS Integers, Sequences, FiniteSets, TLC

\* ------------------------------------------------------------------------
\* Bounds of the input grid
\* ------------------------------------------------------------------------
MaxBatchSize == 12        \* batch sizes 1..MaxBatchSize, plus LargeBatchSizes
RateSteps == 20           \* rates k/RateSteps of 1.0, k in 0..RateSteps
StabilitySteps == 10      \* stability scores of a snapshot, k/StabilitySteps
MaxSeconds == 7           \* processing times of 0..MaxSeconds whole seconds
RecommendationRateSteps == 4        \* rates of a recommendation's snapshot
RecommendationStabilitySteps == 2   \* and its stability scores
MaxHistory == 2           \* length of a recommendation's history
MaxAnalysisHistory == 3   \* length of an analysed history
MaxConfidenceHistory == 12   \* length of a history whose weight is computed
MantissaBits == 8         \* significant bits of a float (the code's have 53)
MaxFloatHistory == 3      \* length of a history averaged in floats
MaxInFlight == 2          \* toggle requests awaiting their response

\* batch sizes around the default upper bound of 200
LargeBatchSizes == {50, 154, 182, 200, 250}

BatchSizes == (1..MaxBatchSize) \cup LargeBatchSizes

\* permille values on a grid of `steps` equal steps of [0, 1]
Grid(steps) == {(k * 1000) \div steps : k \in 0..steps}

\* the rates at which the code's comparisons change side: 0.6 and 0.7 for
\* the stability score, 0.95 and the 0.5 and 0.7 fractions of the two
\* thresholds for the confidence rate, 0.6 for a score of exactly 0.8
BoundaryRates == {300, 400, 420, 560, 600, 700, 950}

Rates == Grid(RateSteps) \cup BoundaryRates

\* half-seconds: the whole seconds, and the 1.5 s of the documented scenario
Times == {2 * s : s \in 0..MaxSeconds} \cup {3}

\* (target_confidence_rate, target_processing_time): the defaults 0.9 and
\* 2.0 s of the signature, and a stricter pair
Targets == {<<900, 4>>, <<800, 2>>}

\* min_confidence_threshold: the default 0.8, and 0.6
Thresholds == {800, 600}

\* the documented scenario: 50 items, 85% high confidence, 1.5 s, 0.9 stable
ScenarioSnapshot ==
    [batch_size |-> 50, high_confidence_rate |-> 850,
     avg_processing_time |-> 3, stability_score |-> 900]

\* PerformanceSnapshot dictionaries handed to predict_optimal_batch_size
Snapshots ==
    [batch_size : BatchSizes,
     high_confidence_rate : Rates,
     avg_processing_time : Times,
     stability_score : Grid(StabilitySteps)] \cup {ScenarioSnapshot}

\* arguments of _calculate_performance_score: the rates and stability
\* scores of the snapshots, and beside the two pairs of targets a
\* target_confidence of 0 and a target_time of 0, which a caller can pass
ScoreRates == Rates \cup {ScenarioSnapshot.high_confidence_rate}

ScoreStabilities ==
    Grid(StabilitySteps) \cup {ScenarioSnapshot.stability_score}

ScoreTargets == Targets \cup {<<0, 4>>, <<900, 0>>}

\* current_performance dictionaries handed to get_scaling_recommendation,
\* on a coarser grid of rates
RecommendationSnapshots ==
    [batch_size : BatchSizes,
     high_confidence_rate : Grid(RecommendationRateSteps),
     avg_processing_time : Times,
     stability_score : Grid(RecommendationStabilitySteps)]

\* snapshots of completed batches, the entries of a history
HistorySnapshots ==
    [batch_size : {10, 20},
     high_confidence_rate : {500, 900},
     avg_processing_time : {0, 4},
     success_rate : {800, 1000}]

\* a few of them, for the histories handed to get_scaling_recommendation
RecentSnapshots ==
    {h \in HistorySnapshots :
        h.avg_processing_time = 4 /\ h.success_rate = 1000}

\* recent_performance dictionaries handed to predict_processing_time; 0 and
\* -1 are batch sizes its guard of line 164 is written for
RecentPerformances ==
    [batch_size : BatchSizes \cup {0, -1},
     avg_processing_time : Times]

\* arguments of _calculate_recommendation_confidence: it reads the batch
\* size and the rate of the snapshot (a batch size of 0 is what its
\* division is exposed to) and only the length of the history
ConfidenceSnapshots ==
    [batch_size : BatchSizes \cup {0},
     high_confidence_rate : Grid(RecommendationRateSteps)]

RepeatedHistory(n) ==
    [i \in 1..n |-> CHOOSE h \in RecentSnapshots : h.batch_size = 10]

ConfidenceHistories == {RepeatedHistory(n) : n \in 0..MaxConfidenceHistory}

\* snapshots whose rates have no finite binary expansion, for the sums
\* that analyze_batch_size_efficiency takes in floating point
FloatSnapshots ==
    [batch_size : {10, 20},
     high_confidence_rate : {100, 200, 300},
     avg_processing_time : {2},
     success_rate : {1000}]

FloatHistories ==
    UNION {[1..k -> FloatSnapshots] : k \in 0..MaxFloatHistory}

SeqsUpTo(S, n) == UNION {[1..k -> S] : k \in 0..n}

AnalysisHistories == SeqsUpTo(HistorySnapshots, MaxAnalysisHistory)

Histories == SeqsUpTo(RecentSnapshots, MaxHistory)

\* performance_trend dictionaries handed to should_scale_now; a dictionary
\* without 'status' reads as status 'unknown'
TrendNames == {"improving", "declining", "stable"}

Trends ==
    [status : {"insufficient_data", "ok", "unknown"},
     confidence_trend : TrendNames,
     time_trend : TrendNames,
     latest_confidence_rate : Rates,
     stability_score : Rates]

\* ------------------------------------------------------------------------
\* Arithmetic
\* ------------------------------------------------------------------------
Min(a, b) == IF a < b THEN a ELSE b

Max(a, b) == IF a > b THEN a ELSE b

Abs(a) == IF a < 0 THEN -a ELSE a

RECURSIVE GCD(_, _)
GCD(a, b) == IF b = 0 THEN a ELSE GCD(b, a % b)

\* the rational n/d (d > 0) in lowest terms
Rat(n, d) ==
    LET g == GCD(Abs(n), d)
    IN  [num |-> n \div g, den |-> d \div g]

RAdd(a, b) ==
    LET l == (a.den \div GCD(a.den, b.den)) * b.den
    IN  Rat(a.num * (l \div a.den) + b.num * (l \div b.den), l)

RMul(a, b) == Rat(a.num * b.num, a.den * b.den)

\* a / b, b > 0
RDiv(a, b) == Rat(a.num * b.den, a.den * b.num)

RLess(a, b) == a.num * b.den < b.num * a.den

\* n1/d1 < n2/d2 for non-negative fractions, by their continued fractions:
\* no product is formed, so large denominators compare without overflow
RECURSIVE FracLess(_, _, _, _)
FracLess(n1, d1, n2, d2) ==
    IF n1 \div d1 # n2 \div d2 THEN n1 \div d1 < n2 \div d2
    ELSE IF n2 % d2 = 0 THEN FALSE
    ELSE IF n1 % d1 = 0 THEN TRUE
    ELSE FracLess(d2, n2 % d2, d1, n1 % d1)

\* a < b for non-negative rationals of any size
RBelow(a, b) == FracLess(a.num, a.den, b.num, b.den)

RMin(a, b) == IF RLess(a, b) THEN a ELSE b

RMax(a, b) == IF RLess(b, a) THEN a ELSE b

\* int(): truncation of n/d (d > 0) toward zero
Trunc(n, d) == IF n >= 0 THEN n \div d ELSE -((-n) \div d)

\* math.exp(-k/4) in units of 1/1000000; 0 stands for the values below
\* 0.05, all of them under the 0.1 floor of the time score
ExpNegQuarters(k) ==
    CASE k = 0 -> 1000000 [] k = 1 -> 778801 [] k = 2 -> 606531
      [] k = 3 -> 472367 [] k = 4 -> 367879 [] k = 5 -> 286505
      [] k = 6 -> 223130 [] k = 7 -> 173774 [] k = 8 -> 135335
      [] k = 9 -> 105399 [] k = 10 -> 82085 [] k = 11 -> 63928
      [] k = 12 -> 49787 [] OTHER -> 0

\* ------------------------------------------------------------------------
\* State
\* ------------------------------------------------------------------------
VARIABLES
    min_batch_size,        \* self.min_batch_size
    max_batch_size,        \* self.max_batch_size
    performance_history,   \* self.performance_history
    pc,                    \* "idle": no call in progress; "returned": a call
                           \* has returned and the host holds its value;
                           \* "raised": a call has raised an exception
    call,                  \* the operation called and its arguments
    ret,                   \* the value it returned
    config,                \* ScalingControls: the config of useState
    last_request,          \* the last request handed to apiClient.post
    in_flight,             \* the enable (TRUE) and disable (FALSE) requests
                           \* of toggleScalingMutation awaiting a response
    scaling_enabled,       \* the backend: the state it last accepted
    token,                 \* AuthProvider: the token of useState
    authToken,             \* localStorage: the entry 'authToken'
    user_query,            \* the CURRENT_USER query of useQuery
    user_request,          \* the GET /api/auth/me request in progress
    login_request,         \* the POST /api/auth/login request in progress
    navigating             \* window.location.href was set to '/login' and
                           \* the page has not been loaded yet

vars == <<min_batch_size, max_batch_size, performance_history, pc, call, ret, config, last_request, in_flight, scaling_enabled, token, authToken, user_query, user_request, login_request, navigating>>

engine == <<min_batch_size, max_batch_size, performance_history>>

form == <<config, last_request, in_flight, scaling_enabled>>

auth == <<token, authToken, user_query, user_request, login_request, navigating>>

NoRequest == [url |-> "none"]

NoCall == [op |-> "none"]

NoValue == [op |-> "none"]

\* the exception a division by zero raises in place of a return value
ZeroDivisionError == [exception |-> "ZeroDivisionError"]

\* ------------------------------------------------------------------------
\* _calculate_performance_score
\* ------------------------------------------------------------------------
\* the decay without its floor of 0.1
time_score_unfloored(processing_time, target_time) ==
    IF processing_time <= target_time
    THEN Rat(1, 1)
    ELSE Rat(ExpNegQuarters((4 * (processing_time - target_time))
                                \div target_time), 1000000)

\* time_score: 1.0 up to the target, exponential decay floored at 0.1 beyond
time_score(processing_time, target_time) ==
    IF processing_time <= target_time
    THEN Rat(1, 1)
    ELSE RMax(Rat(1, 10),
              Rat(ExpNegQuarters((4 * (processing_time - target_time))
                                     \div target_time), 1000000))

\* a rate above the target counted against the score
rate_confidence_score_penalising(confidence_rate, target_confidence) ==
    IF confidence_rate <= target_confidence
    THEN Rat(confidence_rate, target_confidence)
    ELSE Rat(target_confidence, confidence_rate)

\* line 230: min(confidence_rate / target_confidence, 1.0)
rate_confidence_score(confidence_rate, target_confidence) ==
    RMin(Rat(confidence_rate, target_confidence), Rat(1, 1))

\* the divisions of lines 230 and 237 by a target of zero
performance_score_raises(processing_time, target_confidence, target_time) ==
    \/ target_confidence = 0
    \/ processing_time > target_time /\ target_time = 0

_calculate_performance_score(confidence_rate, processing_time, target_confidence, target_time, stability_score) ==
    LET performance_score ==
            RAdd(RAdd(RMul(rate_confidence_score(confidence_rate,
                                                 target_confidence),
                           Rat(6, 10)),
                      RMul(time_score(processing_time, target_time),
                           Rat(3, 10))),
                 RMul(Rat(stability_score, 1000), Rat(1, 10)))
    IN  RMin(performance_score, Rat(1, 1))

\* ------------------------------------------------------------------------
\* predict_optimal_batch_size
\* ------------------------------------------------------------------------
\* >= in place of > in the first comparison
size_for_score_inclusive(performance_score, current_batch_size) ==
    IF ~RLess(performance_score, Rat(8, 10))
    THEN Trunc(current_batch_size * 13, 10)
    ELSE IF RLess(Rat(6, 10), performance_score)
    THEN Trunc(current_batch_size * 11, 10)
    ELSE IF RLess(Rat(4, 10), performance_score)
    THEN current_batch_size
    ELSE IF RLess(Rat(2, 10), performance_score)
    THEN Trunc(current_batch_size * 8, 10)
    ELSE Trunc(current_batch_size * 6, 10)

\* the if/elif chain on the score: the size before the bounds are applied
size_for_score(performance_score, current_batch_size) ==
    IF RLess(Rat(8, 10), performance_score)
    THEN Trunc(current_batch_size * 13, 10)
    ELSE IF RLess(Rat(6, 10), performance_score)
    THEN Trunc(current_batch_size * 11, 10)
    ELSE IF RLess(Rat(4, 10), performance_score)
    THEN current_batch_size
    ELSE IF RLess(Rat(2, 10), performance_score)
    THEN Trunc(current_batch_size * 8, 10)
    ELSE Trunc(current_batch_size * 6, 10)

\* the upper bound left out
apply_constraints_lower_only(optimal_size) == Max(min_batch_size, optimal_size)

\* "Apply constraints"
apply_constraints(optimal_size) ==
    Max(min_batch_size, Min(optimal_size, max_batch_size))

predict_optimal_batch_size_raises(current_performance, target_confidence_rate, target_processing_time) ==
    performance_score_raises(current_performance.avg_processing_time,
                             target_confidence_rate, target_processing_time)

predict_optimal_batch_size(current_performance, target_confidence_rate, target_processing_time) ==
    LET performance_score ==
            _calculate_performance_score(
                current_performance.high_confidence_rate,
                current_performance.avg_processing_time,
                target_confidence_rate, target_processing_time,
                current_performance.stability_score)
    IN  apply_constraints(
            size_for_score(performance_score,
                           current_performance.batch_size))

\* ------------------------------------------------------------------------
\* String formatting of the reason texts
\* ------------------------------------------------------------------------
Digit(d) ==
    CASE d = 0 -> "0" [] d = 1 -> "1" [] d = 2 -> "2" [] d = 3 -> "3"
      [] d = 4 -> "4" [] d = 5 -> "5" [] d = 6 -> "6" [] d = 7 -> "7"
      [] d = 8 -> "8" [] d = 9 -> "9"

RECURSIVE IntStr(_)
IntStr(n) == IF n < 10 THEN Digit(n) ELSE IntStr(n \div 10) \o Digit(n % 10)

\* The permille values ending in 5 whose binary float lies above the
\* decimal tie, so that the format '.2f' rounds them up; the other values
\* ending in 5 lie below the tie and round down.
RoundedUpTies ==
    {5, 25, 35, 55, 65, 85, 95, 115, 135, 165, 195, 225, 255, 265, 275,
     315, 325, 335, 375, 385, 395, 405, 445, 455, 465, 505, 515, 525, 535,
     545, 555, 635, 645, 655, 665, 675, 685, 755, 765, 775, 785, 795, 805,
     875, 885, 895, 905, 915, 925, 935}

\* f"{x:.2f}" of the permille value x in 0..1000
Format2f(x) ==
    LET hundredths ==
            IF x % 10 > 5 \/ (x % 10 = 5 /\ x \in RoundedUpTies)
            THEN x \div 10 + 1
            ELSE x \div 10
    IN  IntStr(hundredths \div 100) \o "."
            \o Digit((hundredths \div 10) % 10) \o Digit(hundredths % 10)

\* f"{x:.1%}" of the permille value x
FormatPercent1(x) == IntStr(x \div 10) \o "." \o Digit(x % 10) \o "%"

\* ------------------------------------------------------------------------
\* should_scale_now
\* ------------------------------------------------------------------------
\* a misspelt status text
insufficient_data_misspelt(trend_status) == trend_status = "insufficient data"

\* line 73
insufficient_data(trend_status) == trend_status = "insufficient_data"

\* a lower stability threshold
unstable_below_half(stability_score) == stability_score < 500

\* line 82: stability_score < 0.6
unstable(stability_score) == stability_score < 600

\* line 86: latest_confidence < min_confidence_threshold * 0.5
confidence_critically_low(latest_confidence, min_confidence_threshold) ==
    latest_confidence * 10 < min_confidence_threshold * 5

\* >= in place of >
improving_trend_inclusive(confidence_trend, time_trend, stability_score) ==
    /\ confidence_trend = "improving"
    /\ time_trend \in {"improving", "stable"}
    /\ stability_score >= 700

\* line 90
improving_trend(confidence_trend, time_trend, stability_score) ==
    /\ confidence_trend = "improving"
    /\ time_trend \in {"improving", "stable"}
    /\ stability_score > 700

\* `and` in place of `or`
declining_trend_both(confidence_trend, time_trend) ==
    confidence_trend = "declining" /\ time_trend = "declining"

\* line 93
declining_trend(confidence_trend, time_trend) ==
    confidence_trend = "declining" \/ time_trend = "declining"

\* `or` in place of `and`
stable_trends_either(confidence_trend, time_trend) ==
    confidence_trend = "stable" \/ time_trend = "stable"

\* line 97
stable_trends(confidence_trend, time_trend) ==
    confidence_trend = "stable" /\ time_trend = "stable"

\* >= in place of >
very_high_confidence_inclusive(latest_confidence) == latest_confidence >= 950

\* line 99: latest_confidence > 0.95
very_high_confidence(latest_confidence) == latest_confidence > 950

\* line 101: latest_confidence < min_confidence_threshold * 0.7
low_confidence(latest_confidence, min_confidence_threshold) ==
    latest_confidence * 10 < min_confidence_threshold * 7

\* the text without the formatted stability score
unstable_reason_bare(stability_score) == "Performance too unstable"

\* line 83
unstable_reason(stability_score) ==
    "Performance too unstable (stability: "
        \o Format2f(stability_score) \o ")"

\* line 87
confidence_too_low_reason(latest_confidence) ==
    "Confidence too low for scaling ("
        \o FormatPercent1(latest_confidence) \o ")"

\* line 100
very_high_confidence_reason == "Very high confidence allows for scaling up"

\* line 104
no_trigger == <<FALSE, "No clear scaling trigger identified">>

should_scale_now(performance_trend, min_confidence_threshold) ==
    LET trend_status == performance_trend.status
        confidence_trend == performance_trend.confidence_trend
        time_trend == performance_trend.time_trend
        latest_confidence == performance_trend.latest_confidence_rate
        stability_score == performance_trend.stability_score
    IN  IF insufficient_data(trend_status)
        THEN <<FALSE, "Insufficient data for scaling decision">>
        ELSE IF unstable(stability_score)
        THEN <<FALSE, unstable_reason(stability_score)>>
        ELSE IF confidence_critically_low(latest_confidence,
                                          min_confidence_threshold)
        THEN <<FALSE, confidence_too_low_reason(latest_confidence)>>
        ELSE IF improving_trend(confidence_trend, time_trend,
                                stability_score)
        THEN <<TRUE, "Improving performance trend with good stability">>
        ELSE IF declining_trend(confidence_trend, time_trend)
        THEN <<TRUE, "Declining performance requires adjustment">>
        ELSE IF stable_trends(confidence_trend, time_trend)
                /\ very_high_confidence(latest_confidence)
        THEN <<TRUE, very_high_confidence_reason>>
        ELSE IF stable_trends(confidence_trend, time_trend)
                /\ low_confidence(latest_confidence,
                                  min_confidence_threshold)
        THEN <<TRUE, "Low confidence requires scaling down">>
        ELSE no_trigger

\* ------------------------------------------------------------------------
\* analyze_batch_size_efficiency
\* ------------------------------------------------------------------------
\* the entries of performance_data with the given batch size, in order
performances(performance_data, batch_size) ==
    SelectSeq(performance_data, LAMBDA data : data.batch_size = batch_size)

\* sum of a numeric field over a sequence of dictionaries
RECURSIVE SumOf(_, _)
SumOf(seq, field) ==
    IF seq = <<>> THEN 0 ELSE Head(seq)[field] + SumOf(Tail(seq), field)

\* position of the first entry with the given batch size: the position of
\* the key in the insertion-ordered dictionary batch_size_performance
first_position(performance_data, batch_size) ==
    CHOOSE i \in 1..Len(performance_data) :
        /\ performance_data[i].batch_size = batch_size
        /\ \A j \in 1..(i - 1) : performance_data[j].batch_size # batch_size

\* the average time itself as the divisor
time_divisor_unfloored(avg_time) == avg_time

\* line 134: the divisor max(avg_time, 0.1)
time_divisor(avg_time) == RMax(avg_time, Rat(1, 10))

\* line 134 divides by it
efficiency_raises(perfs) ==
    time_divisor(Rat(SumOf(perfs, "avg_processing_time"),
                     2 * Len(perfs))).num = 0

\* the weights of the confidence and success rates exchanged
efficiency_entry_swapped(perfs) ==
    LET avg_confidence == Rat(SumOf(perfs, "high_confidence_rate"),
                              1000 * Len(perfs))
        avg_time == Rat(SumOf(perfs, "avg_processing_time"), 2 * Len(perfs))
        avg_success == Rat(SumOf(perfs, "success_rate"), 1000 * Len(perfs))
        efficiency_score ==
            RMul(RDiv(RAdd(RMul(avg_confidence, Rat(3, 10)),
                           RMul(avg_success, Rat(5, 10))),
                      time_divisor(avg_time)),
                 Rat(2, 10))
    IN  [avg_confidence_rate |-> avg_confidence,
         avg_processing_time |-> avg_time,
         avg_success_rate |-> avg_success,
         efficiency_score |-> efficiency_score,
         sample_count |-> Len(perfs)]

\* lines 129-142: the entry of efficiency_analysis of one batch size
efficiency_entry(perfs) ==
    LET avg_confidence == Rat(SumOf(perfs, "high_confidence_rate"),
                              1000 * Len(perfs))
        avg_time == Rat(SumOf(perfs, "avg_processing_time"), 2 * Len(perfs))
        avg_success == Rat(SumOf(perfs, "success_rate"), 1000 * Len(perfs))
        efficiency_score ==
            RMul(RDiv(RAdd(RMul(avg_confidence, Rat(5, 10)),
                           RMul(avg_success, Rat(3, 10))),
                      time_divisor(avg_time)),
                 Rat(2, 10))
    IN  [avg_confidence_rate |-> avg_confidence,
         avg_processing_time |-> avg_time,
         avg_success_rate |-> avg_success,
         efficiency_score |-> efficiency_score,
         sample_count |-> Len(perfs)]

\* a single data point accepted
enough_samples_one(perfs) == Len(perfs) >= 1

\* line 128: "Need at least 2 data points"
enough_samples(perfs) == Len(perfs) >= 2

analyze_batch_size_efficiency_raises(performance_data) ==
    \E i \in 1..Len(performance_data) :
        LET perfs == performances(performance_data,
                                  performance_data[i].batch_size)
        IN  enough_samples(perfs) /\ efficiency_raises(perfs)

analyze_batch_size_efficiency(performance_data) ==
    IF performance_data = <<>>
    THEN [status |-> "no_data"]
    ELSE
    LET sizes == {performance_data[i].batch_size :
                      i \in 1..Len(performance_data)}
        analysed == {b \in sizes :
                        enough_samples(performances(performance_data, b))}
        efficiency_analysis ==
            [b \in analysed |->
                efficiency_entry(performances(performance_data, b))]
        \* max() returns the first key, in insertion order, of those with
        \* the highest efficiency_score
        best_batch_size ==
            CHOOSE b \in analysed :
                \A c \in analysed \ {b} :
                    \/ RLess(efficiency_analysis[c].efficiency_score,
                             efficiency_analysis[b].efficiency_score)
                    \/ /\ efficiency_analysis[c].efficiency_score
                            = efficiency_analysis[b].efficiency_score
                       /\ first_position(performance_data, b)
                            < first_position(performance_data, c)
    IN  IF analysed = {}
        THEN [status |-> "insufficient_data"]
        ELSE [status |-> "analyzed",
              efficiency_by_batch_size |-> efficiency_analysis,
              recommended_batch_size |-> best_batch_size,
              best_efficiency_score |->
                  efficiency_analysis[best_batch_size].efficiency_score]

\* ------------------------------------------------------------------------
\* The averages of analyze_batch_size_efficiency as the interpreter computes
\* them: binary floating point, each sum and quotient rounded to the
\* nearest float, ties to even. A float is an integer number of units of
\* 2^-FractionBits with at most MantissaBits significant bits.
\* ------------------------------------------------------------------------
FractionBits == MantissaBits + 8

RECURSIVE Pow2(_)
Pow2(k) == IF k = 0 THEN 1 ELSE 2 * Pow2(k - 1)

RECURSIVE BitLength(_)
BitLength(m) == IF m = 0 THEN 0 ELSE 1 + BitLength(m \div 2)

\* the bits below the kept ones dropped, three more than there is room for
float_round_div_chopped(m, n) ==
    LET shift == Max(BitLength(m \div n) - MantissaBits, 0) + 3
    IN  (m \div (n * Pow2(shift))) * Pow2(shift)

\* m / n rounded to the nearest float
float_round_div(m, n) ==
    LET shift == Max(BitLength(m \div n) - MantissaBits, 0)
        d == n * Pow2(shift)
        k == m \div d
        r == m % d
        up == 2 * r > d \/ (2 * r = d /\ k % 2 = 1)
    IN  (IF up THEN k + 1 ELSE k) * Pow2(shift)

\* a + b
float_add(a, b) == float_round_div(a + b, 1)

\* the float of a decimal rate given in thousandths
float_of_rate(permille) == float_round_div(permille * Pow2(FractionBits), 1000)

\* the float of a time given in half-seconds: exact
float_of_time(half_seconds) == half_seconds * Pow2(FractionBits - 1)

\* sum(p[field] for p in performances): from the left, starting at 0
RECURSIVE float_sum(_, _)
float_sum(values, n) ==
    IF n = 0 THEN 0 ELSE float_add(float_sum(values, n - 1), values[n])

\* lines 129-131 and 136-141: the averages and the count of one batch size
float_entry(perfs) ==
    LET n == Len(perfs)
        rates == [i \in 1..n |-> float_of_rate(perfs[i].high_confidence_rate)]
        times == [i \in 1..n |-> float_of_time(perfs[i].avg_processing_time)]
        successes == [i \in 1..n |-> float_of_rate(perfs[i].success_rate)]
    IN  [avg_confidence_rate |-> float_round_div(float_sum(rates, n), n),
         avg_processing_time |-> float_round_div(float_sum(times, n), n),
         avg_success_rate |-> float_round_div(float_sum(successes, n), n),
         sample_count |-> n]

\* analyze_batch_size_efficiency without the scores: the status, the sizes
\* analysed and the entries' averages and counts
analyze_batch_size_efficiency_averages(performance_data) ==
    IF performance_data = <<>>
    THEN [status |-> "no_data"]
    ELSE
    LET sizes == {performance_data[i].batch_size :
                      i \in 1..Len(performance_data)}
        analysed == {b \in sizes :
                        enough_samples(performances(performance_data, b))}
    IN  IF analysed = {}
        THEN [status |-> "insufficient_data"]
        ELSE [status |-> "analyzed",
              efficiency_by_batch_size |->
                  [b \in analysed |->
                      float_entry(performances(performance_data, b))]]

\* ------------------------------------------------------------------------
\* predict_processing_time (seconds, as a rational)
\* ------------------------------------------------------------------------
\* line 164: no usable batch size in the recent snapshot
no_recent_batch(current_batch_size) == current_batch_size <= 0

\* >= in place of >
larger_batch_inclusive(batch_size, current_batch_size) ==
    2 * batch_size >= 3 * current_batch_size

\* line 174: batch_size > current_batch_size * 1.5
larger_batch(batch_size, current_batch_size) ==
    2 * batch_size > 3 * current_batch_size

\* line 168 divides by current_batch_size
predict_processing_time_raises(batch_size, recent_performance) ==
    /\ ~no_recent_batch(recent_performance.batch_size)
    /\ recent_performance.batch_size = 0

\* a discount in place of the penalty
complexity_factor_discount(batch_size, current_batch_size) ==
    RAdd(Rat(1, 1),
         RMul(Rat(current_batch_size - batch_size, current_batch_size),
              Rat(1, 10)))

\* line 175: 1 + (batch_size / current_batch_size - 1) * 0.1
complexity_factor(batch_size, current_batch_size) ==
    RAdd(Rat(1, 1),
         RMul(Rat(batch_size - current_batch_size, current_batch_size),
              Rat(1, 10)))

predict_processing_time(batch_size, recent_performance) ==
    LET current_batch_size == recent_performance.batch_size
        current_time == Rat(recent_performance.avg_processing_time, 2)
        time_per_item == RDiv(current_time, Rat(current_batch_size, 1))
        overhead == RMul(current_time, Rat(1, 10))
        predicted_time == RAdd(RMul(Rat(batch_size, 1), time_per_item),
                               overhead)
    IN  IF no_recent_batch(current_batch_size)
        THEN Rat(batch_size * 2, 100)
        ELSE IF larger_batch(batch_size, current_batch_size)
        THEN RMax(RMul(predicted_time,
                       complexity_factor(batch_size, current_batch_size)),
                  Rat(1, 10))
        ELSE RMax(predicted_time, Rat(1, 10))

\* ------------------------------------------------------------------------
\* _calculate_recommendation_confidence
\* ------------------------------------------------------------------------
\* the division taken as one of integers
data_availability_floored(historical_data) ==
    RMin(Rat(Len(historical_data) \div 10, 1), Rat(1, 1))

\* line 251: min(len(historical_data) / 10.0, 1.0)
data_availability(historical_data) ==
    RMin(Rat(Len(historical_data), 10), Rat(1, 1))

\* line 254 divides by current_batch_size
recommendation_confidence_raises(current_performance) ==
    current_performance.batch_size = 0

\* "if" in place of "elif": a change of more than 50% reduced twice
_calculate_recommendation_confidence_twice(current_performance, recommended_size, historical_data) ==
    LET current_batch_size == current_performance.batch_size
        base == data_availability(historical_data)
        size_change_ratio ==
            Rat(Abs(recommended_size - current_batch_size),
                current_batch_size)
        after_large ==
            IF RLess(Rat(5, 10), size_change_ratio)
            THEN RMul(base, Rat(7, 10))
            ELSE base
        after_change ==
            IF RLess(Rat(2, 10), size_change_ratio)
            THEN RMul(after_large, Rat(9, 10))
            ELSE after_large
        confidence ==
            IF current_performance.high_confidence_rate < 500
            THEN RMul(after_change, Rat(8, 10))
            ELSE after_change
    IN  RMin(confidence, Rat(1, 1))

_calculate_recommendation_confidence(current_performance, recommended_size, historical_data) ==
    LET current_batch_size == current_performance.batch_size
        base == data_availability(historical_data)
        size_change_ratio ==
            Rat(Abs(recommended_size - current_batch_size),
                current_batch_size)
        after_change ==
            IF RLess(Rat(5, 10), size_change_ratio)
            THEN RMul(base, Rat(7, 10))
            ELSE IF RLess(Rat(2, 10), size_change_ratio)
            THEN RMul(base, Rat(9, 10))
            ELSE base
        confidence ==
            IF current_performance.high_confidence_rate < 500
            THEN RMul(after_change, Rat(8, 10))
            ELSE after_change
    IN  RMin(confidence, Rat(1, 1))

\* ------------------------------------------------------------------------
\* get_scaling_recommendation
\* ------------------------------------------------------------------------
\* >= in place of >
increase_inclusive(optimal_size, current_batch_size) ==
    optimal_size * 10 >= current_batch_size * 11

\* lines 200-208: the action and its reason
increase(optimal_size, current_batch_size) ==
    optimal_size * 10 > current_batch_size * 11

\* 1.1 in place of 0.9
decrease_below_increase(optimal_size, current_batch_size) ==
    optimal_size * 10 < current_batch_size * 11

decrease(optimal_size, current_batch_size) ==
    optimal_size * 10 < current_batch_size * 9

determine_action(optimal_size, current_batch_size) ==
    IF increase(optimal_size, current_batch_size)
    THEN <<"increase",
           "Performance allows scaling up to " \o IntStr(optimal_size)>>
    ELSE IF decrease(optimal_size, current_batch_size)
    THEN <<"decrease",
           "Performance requires scaling down to " \o IntStr(optimal_size)>>
    ELSE <<"maintain",
           "Current batch size " \o IntStr(current_batch_size)
               \o " is optimal">>

\* an exception of any of the calls of lines 188-221 leaves the function
get_scaling_recommendation_raises(current_performance, historical_data) ==
    \/ predict_optimal_batch_size_raises(current_performance, 900, 4)
    \/ analyze_batch_size_efficiency_raises(historical_data)
    \/ predict_processing_time_raises(
           predict_optimal_batch_size(current_performance, 900, 4),
           current_performance)
    \/ recommendation_confidence_raises(current_performance)

\* the time predicted from the last snapshot of the history
get_scaling_recommendation_from_history(current_performance, historical_data) ==
    LET current_batch_size == current_performance.batch_size
        optimal_size ==
            predict_optimal_batch_size(current_performance, 900, 4)
        efficiency_analysis ==
            analyze_batch_size_efficiency(historical_data)
        predicted_time ==
            predict_processing_time(
                optimal_size,
                IF historical_data = <<>> THEN current_performance
                ELSE historical_data[Len(historical_data)])
        confidence_score ==
            _calculate_recommendation_confidence(
                current_performance, optimal_size, historical_data)
        action_reason == determine_action(optimal_size, current_batch_size)
    IN  [action |-> action_reason[1],
         current_batch_size |-> current_batch_size,
         recommended_batch_size |-> optimal_size,
         predicted_processing_time |-> predicted_time,
         confidence_score |-> confidence_score,
         reason |-> action_reason[2],
         efficiency_analysis |-> efficiency_analysis,
         \* called with two arguments: the targets and the stability
         \* score take their defaults 0.9, 2.0 and 1.0
         performance_score |->
             _calculate_performance_score(
                 current_performance.high_confidence_rate,
                 current_performance.avg_processing_time,
                 900, 4, 1000)]

get_scaling_recommendation(current_performance, historical_data) ==
    LET current_batch_size == current_performance.batch_size
        optimal_size ==
            predict_optimal_batch_size(current_performance, 900, 4)
        efficiency_analysis ==
            analyze_batch_size_efficiency(historical_data)
        predicted_time ==
            predict_processing_time(optimal_size, current_performance)
        confidence_score ==
            _calculate_recommendation_confidence(
                current_performance, optimal_size, historical_data)
        action_reason == determine_action(optimal_size, current_batch_size)
    IN  [action |-> action_reason[1],
         current_batch_size |-> current_batch_size,
         recommended_batch_size |-> optimal_size,
         predicted_processing_time |-> predicted_time,
         confidence_score |-> confidence_score,
         reason |-> action_reason[2],
         efficiency_analysis |-> efficiency_analysis,
         \* called with two arguments: the targets and the stability
         \* score take their defaults 0.9, 2.0 and 1.0
         performance_score |->
             _calculate_performance_score(
                 current_performance.high_confidence_rate,
                 current_performance.avg_processing_time,
                 900, 4, 1000)]

\* ------------------------------------------------------------------------
\* Calls
\* ------------------------------------------------------------------------
\* a method that appended what it was called for to the history
engine_after_call_recording ==
    /\ performance_history' = Append(performance_history, call'.op)
    /\ UNCHANGED <<min_batch_size, max_batch_size>>

\* no method assigns to self.min_batch_size, self.max_batch_size or
\* self.performance_history: __init__ holds their only assignments
engine_after_call == UNCHANGED engine

CallPredictOptimalBatchSize ==
    /\ pc = "idle"
    /\ \E cp \in Snapshots, tg \in Targets :
          /\ call' = [op |-> "predict_optimal_batch_size",
                      current_performance |-> cp,
                      target_confidence_rate |-> tg[1],
                      target_processing_time |-> tg[2]]
          /\ IF predict_optimal_batch_size_raises(cp, tg[1], tg[2])
             THEN pc' = "raised" /\ ret' = ZeroDivisionError
             ELSE /\ pc' = "returned"
                  /\ ret' = predict_optimal_batch_size(cp, tg[1], tg[2])
    /\ engine_after_call
    /\ UNCHANGED <<form, auth>>

CallShouldScaleNow ==
    /\ pc = "idle"
    /\ \E pt \in Trends, th \in Thresholds :
          /\ call' = [op |-> "should_scale_now",
                      performance_trend |-> pt,
                      min_confidence_threshold |-> th]
          /\ ret' = should_scale_now(pt, th)
    /\ pc' = "returned"
    /\ engine_after_call
    /\ UNCHANGED <<form, auth>>

CallAnalyzeBatchSizeEfficiency ==
    /\ pc = "idle"
    /\ \E pd \in AnalysisHistories :
          /\ call' = [op |-> "analyze_batch_size_efficiency",
                      performance_data |-> pd]
          /\ IF analyze_batch_size_efficiency_raises(pd)
             THEN pc' = "raised" /\ ret' = ZeroDivisionError
             ELSE /\ pc' = "returned"
                  /\ ret' = analyze_batch_size_efficiency(pd)
    /\ engine_after_call
    /\ UNCHANGED <<form, auth>>

CallGetScalingRecommendation ==
    /\ pc = "idle"
    /\ \E cp \in RecommendationSnapshots, hd \in Histories :
          /\ call' = [op |-> "get_scaling_recommendation",
                      current_performance |-> cp,
                      historical_data |-> hd]
          /\ IF get_scaling_recommendation_raises(cp, hd)
             THEN pc' = "raised" /\ ret' = ZeroDivisionError
             ELSE /\ pc' = "returned"
                  /\ ret' = get_scaling_recommendation(cp, hd)
    /\ engine_after_call
    /\ UNCHANGED <<form, auth>>

CallPredictProcessingTime ==
    /\ pc = "idle"
    /\ \E bs \in BatchSizes, rp \in RecentPerformances :
          /\ call' = [op |-> "predict_processing_time",
                      batch_size |-> bs,
                      recent_performance |-> rp]
          /\ IF predict_processing_time_raises(bs, rp)
             THEN pc' = "raised" /\ ret' = ZeroDivisionError
             ELSE pc' = "returned" /\ ret' = predict_processing_time(bs, rp)
    /\ engine_after_call
    /\ UNCHANGED <<form, auth>>

CallCalculatePerformanceScore ==
    /\ pc = "idle"
    /\ \E cr \in ScoreRates, t \in Times, tg \in ScoreTargets,
          st \in ScoreStabilities :
          /\ call' = [op |-> "_calculate_performance_score",
                      confidence_rate |-> cr,
                      processing_time |-> t,
                      target_confidence |-> tg[1],
                      target_time |-> tg[2],
                      stability_score |-> st]
          /\ IF performance_score_raises(t, tg[1], tg[2])
             THEN pc' = "raised" /\ ret' = ZeroDivisionError
             ELSE /\ pc' = "returned"
                  /\ ret' = _calculate_performance_score(cr, t, tg[1],
                                                         tg[2], st)
    /\ engine_after_call
    /\ UNCHANGED <<form, auth>>

CallCalculateRecommendationConfidence ==
    /\ pc = "idle"
    /\ \E cp \in ConfidenceSnapshots, size \in BatchSizes,
          hd \in ConfidenceHistories :
          /\ call' = [op |-> "_calculate_recommendation_confidence",
                      current_performance |-> cp,
                      recommended_size |-> size,
                      historical_data |-> hd]
          /\ IF recommendation_confidence_raises(cp)
             THEN pc' = "raised" /\ ret' = ZeroDivisionError
             ELSE /\ pc' = "returned"
                  /\ ret' = _calculate_recommendation_confidence(cp, size,
                                                                 hd)
    /\ engine_after_call
    /\ UNCHANGED <<form, auth>>

CallAnalyzeAverages ==
    /\ pc = "idle"
    /\ \E pd \in FloatHistories :
          /\ call' = [op |-> "analyze_batch_size_efficiency (averages)",
                      performance_data |-> pd]
          /\ ret' = analyze_batch_size_efficiency_averages(pd)
    /\ pc' = "returned"
    /\ engine_after_call
    /\ UNCHANGED <<form, auth>>

\* what a call does: whether it returns or raises, and the value
Outcome(c) ==
    CASE c.op = "predict_optimal_batch_size" ->
            IF predict_optimal_batch_size_raises(
                   c.current_performance, c.target_confidence_rate,
                   c.target_processing_time)
            THEN <<"raised", ZeroDivisionError>>
            ELSE <<"returned",
                   predict_optimal_batch_size(
                       c.current_performance, c.target_confidence_rate,
                       c.target_processing_time)>>
      [] c.op = "should_scale_now" ->
            <<"returned",
              should_scale_now(c.performance_trend,
                               c.min_confidence_threshold)>>
      [] c.op = "analyze_batch_size_efficiency" ->
            IF analyze_batch_size_efficiency_raises(c.performance_data)
            THEN <<"raised", ZeroDivisionError>>
            ELSE <<"returned",
                   analyze_batch_size_efficiency(c.performance_data)>>
      [] c.op = "get_scaling_recommendation" ->
            IF get_scaling_recommendation_raises(c.current_performance,
                                                 c.historical_data)
            THEN <<"raised", ZeroDivisionError>>
            ELSE <<"returned",
                   get_scaling_recommendation(c.current_performance,
                                              c.historical_data)>>
      [] c.op = "predict_processing_time" ->
            IF predict_processing_time_raises(c.batch_size,
                                              c.recent_performance)
            THEN <<"raised", ZeroDivisionError>>
            ELSE <<"returned",
                   predict_processing_time(c.batch_size,
                                           c.recent_performance)>>
      [] c.op = "_calculate_performance_score" ->
            IF performance_score_raises(c.processing_time,
                                        c.target_confidence, c.target_time)
            THEN <<"raised", ZeroDivisionError>>
            ELSE <<"returned",
                   _calculate_performance_score(
                       c.confidence_rate, c.processing_time,
                       c.target_confidence, c.target_time,
                       c.stability_score)>>
      [] c.op = "_calculate_recommendation_confidence" ->
            IF recommendation_confidence_raises(c.current_performance)
            THEN <<"raised", ZeroDivisionError>>
            ELSE <<"returned",
                   _calculate_recommendation_confidence(
                       c.current_performance, c.recommended_size,
                       c.historical_data)>>

\* the host makes the call it has just made once more, with the same
\* arguments, on the engine as the first call left it
CallAgain ==
    /\ pc \in {"returned", "raised"}
    /\ call' = call
    /\ pc' = Outcome(call)[1] \o "_again"
    /\ ret' = Outcome(call)[2]
    /\ engine_after_call
    /\ UNCHANGED <<form, auth>>

\* the host takes the returned value, or catches the exception; the engine
\* is ready for the next call
Return ==
    /\ pc \in {"returned", "raised", "returned_again", "raised_again"}
    /\ pc' = "idle"
    /\ call' = NoCall
    /\ ret' = NoValue
    /\ UNCHANGED <<engine, form, auth>>

\* ------------------------------------------------------------------------
\* ScalingControls.tsx: the form that posts the scaling configuration.
\* target_confidence is in hundredths (step 0.01), scaling_factor in tenths
\* (step 0.1).
\* ------------------------------------------------------------------------
\* values a user can type into the two size fields, the target field and
\* the factor field; 0, 150 and 25 lie outside the fields' min and max
FormSizes == {0, 1, 10, 200, 500}

FormTargets == {0, 85, 100, 150}

FormFactors == {12, 20, 25}

\* the browser's check of the number inputs of lines 105-175 when the form
\* is submitted: each value within the min and max of its field
inputs_valid(c) ==
    /\ c.min_batch_size >= 1 /\ c.min_batch_size <= 1000
    /\ c.max_batch_size >= 1 /\ c.max_batch_size <= 1000
    /\ c.target_confidence >= 0 /\ c.target_confidence <= 100
    /\ c.scaling_factor >= 10 /\ c.scaling_factor <= 20

\* lines 59-63
handleToggleScaling ==
    LET newEnabled == ~config.enabled
    IN  /\ Len(in_flight) < MaxInFlight
        /\ config' = [config EXCEPT !.enabled = newEnabled]
        /\ last_request' =
               [url |-> IF newEnabled THEN "/batches/scaling/enable"
                        ELSE "/batches/scaling/disable"]
        /\ in_flight' = Append(in_flight, newEnabled)
        /\ UNCHANGED <<engine, auth, pc, call, ret, scaling_enabled>>

\* in_flight without its i-th request
Answered(i) ==
    [j \in 1..(Len(in_flight) - 1) |->
        IF j < i THEN in_flight[j] ELSE in_flight[j + 1]]

\* lines 45-48: the backend has accepted a request, whichever of those in
\* flight it took; onSuccess shows a toast and refetches the status
ToggleSucceeded ==
    /\ \E i \in 1..Len(in_flight) :
          /\ scaling_enabled' = in_flight[i]
          /\ in_flight' = Answered(i)
    /\ UNCHANGED <<engine, auth, pc, call, ret, config, last_request>>

\* lines 49-51: a request has failed; onError shows a toast
ToggleFailed ==
    /\ \E i \in 1..Len(in_flight) : in_flight' = Answered(i)
    /\ UNCHANGED <<engine, auth, pc, call, ret, config, last_request,
                   scaling_enabled>>

\* the onChange handlers; the fields are rendered only while enabled
ChangeMinBatchSize ==
    /\ config.enabled
    /\ \E v \in FormSizes : config' = [config EXCEPT !.min_batch_size = v]
    /\ UNCHANGED <<engine, auth, pc, call, ret, last_request, in_flight,
                   scaling_enabled>>

ChangeMaxBatchSize ==
    /\ config.enabled
    /\ \E v \in FormSizes : config' = [config EXCEPT !.max_batch_size = v]
    /\ UNCHANGED <<engine, auth, pc, call, ret, last_request, in_flight,
                   scaling_enabled>>

ChangeTargetConfidence ==
    /\ config.enabled
    /\ \E v \in FormTargets :
          config' = [config EXCEPT !.target_confidence = v]
    /\ UNCHANGED <<engine, auth, pc, call, ret, last_request, in_flight,
                   scaling_enabled>>

ChangeScalingFactor ==
    /\ config.enabled
    /\ \E v \in FormFactors :
          config' = [config EXCEPT !.scaling_factor = v]
    /\ UNCHANGED <<engine, auth, pc, call, ret, last_request, in_flight,
                   scaling_enabled>>

\* lines 54-57, behind the submit button (disabled unless enabled) and the
\* browser's check of the inputs
handleSubmit ==
    /\ config.enabled
    /\ inputs_valid(config)
    /\ last_request' = [url |-> "/batches/scaling/configure",
                        body |-> config]
    /\ UNCHANGED <<engine, auth, pc, call, ret, config, in_flight,
                   scaling_enabled>>

\* ------------------------------------------------------------------------
\* AuthProvider, ProtectedRoute and the interceptors of apiClient
\* ------------------------------------------------------------------------

\* The access tokens the backend hands out.
Tokens == {"t1", "t2"}

\* The statuses of the failed responses: 401 and any other.
FailureStatuses == {401, 500}

\* The CURRENT_USER query before its first fetch: no data, no error.
NewQuery == [status |-> "loading", data |-> "none", error |-> FALSE, fetching |-> FALSE]

NotRequested == [state |-> "none", authorization |-> "none"]

\* A request handed to apiClient whose request interceptor has not run.
Created == [state |-> "created", authorization |-> "none"]

\* The query when a fetch starts: a query without data goes back to
\* "loading" and drops its error, a query with data keeps both.
Fetching(q) ==
    IF q.data = "none"
    THEN [q EXCEPT !.status = "loading", !.error = FALSE, !.fetching = TRUE]
    ELSE [q EXCEPT !.fetching = TRUE]

\* The query when its fetch fails; retry is false, the data is kept.
Failed(q) == [q EXCEPT !.status = "error", !.error = TRUE, !.fetching = FALSE]

\* The query when its fetch succeeds.
Succeeded(q) == [status |-> "success", data |-> "user", error |-> FALSE, fetching |-> FALSE]

\* use-auth.tsx: isLoading of the context value.
isLoading == user_query.status = "loading" /\ token # "none"

isAuthenticated_by_token == token # "none"

\* use-auth.tsx: isAuthenticated = !!token && !!user.
isAuthenticated == token # "none" /\ user_query.data # "none"

\* ProtectedRoute.tsx: what the component renders.
ProtectedRoute ==
    IF isLoading THEN "spinner"
    ELSE IF ~isAuthenticated THEN "/login"
    ELSE "children"

authService_logout_keeping == authToken' = authToken

\* auth.ts: authService.logout removes the entry 'authToken'.
authService_logout == authToken' = "none"

\* The response interceptor on a 401: the entry is removed and the window
\* is sent to '/login'; on any other status nothing is touched.
ResponseRejected(status) ==
    IF status = 401
    THEN authToken' = "none" /\ navigating' = TRUE
    ELSE UNCHANGED <<authToken, navigating>>

\* login(credentials): loginMutation.mutateAsync hands the request to
\* apiClient.
login ==
    /\ login_request.state = "none"
    /\ login_request' = Created
    /\ UNCHANGED <<engine, form, pc, call, ret, token, authToken, user_query, user_request, navigating>>

\* The request interceptor runs on the login request: it reads the entry
\* 'authToken' and sets the Authorization header when there is one.
InterceptLoginRequest ==
    /\ login_request.state = "created"
    /\ login_request' = [state |-> "sent", authorization |-> authToken]
    /\ UNCHANGED <<engine, form, pc, call, ret, token, authToken, user_query, user_request, navigating>>

\* The request interceptor runs on the current-user request.
InterceptUserRequest ==
    /\ user_request.state = "created"
    /\ user_request' = [state |-> "sent", authorization |-> authToken]
    /\ UNCHANGED <<engine, form, pc, call, ret, token, authToken, user_query, login_request, navigating>>

\* loginMutation.onSuccess: the token goes to the state and to
\* localStorage, the CURRENT_USER query is invalidated and, enabled by the
\* token, fetched again.
LoginSucceeded(newToken) ==
    /\ login_request.state = "sent"
    /\ login_request' = NotRequested
    /\ token' = newToken
    /\ authToken' = newToken
    /\ user_query' = Fetching(user_query)
    /\ user_request' = Created
    /\ UNCHANGED <<engine, form, pc, call, ret, navigating>>

\* The login request fails: the mutation keeps the state as it is, the
\* response interceptor has handled the status.
LoginFailed(status) ==
    /\ login_request.state = "sent"
    /\ login_request' = NotRequested
    /\ ResponseRejected(status)
    /\ UNCHANGED <<engine, form, pc, call, ret, token, user_query, user_request>>

\* GET /api/auth/me answers with the user; the backend does so only for a
\* request that carries a token.
UserFetchSucceeded ==
    /\ user_request.state = "sent"
    /\ user_request.authorization # "none"
    /\ user_request' = NotRequested
    /\ user_query' = Succeeded(user_query)
    /\ UNCHANGED <<engine, form, pc, call, ret, token, authToken, login_request, navigating>>

\* GET /api/auth/me fails.
UserFetchFailed(status) ==
    /\ user_request.state = "sent"
    /\ user_request' = NotRequested
    /\ user_query' = Failed(user_query)
    /\ ResponseRejected(status)
    /\ UNCHANGED <<engine, form, pc, call, ret, token, login_request>>

\* The effect on [error, token]: with an error and a token, the token is
\* dropped from the state and from localStorage.
ClearTokenEffect ==
    /\ user_query.error
    /\ token # "none"
    /\ token' = "none"
    /\ authToken' = "none"
    /\ UNCHANGED <<engine, form, pc, call, ret, user_query, user_request, login_request, navigating>>

\* logout(): setToken(null), authService.logout(), queryClient.clear().
\* The cleared query is rebuilt without data; the answer to a fetch that
\* was in progress goes to the removed query.
logout ==
    /\ token' = "none"
    /\ authService_logout
    /\ user_query' = NewQuery
    /\ user_request' = NotRequested
    /\ UNCHANGED <<engine, form, pc, call, ret, login_request, navigating>>

\* A request of the rendered children is answered with 401.
ApiUnauthorized ==
    /\ ProtectedRoute = "children"
    /\ ResponseRejected(401)
    /\ UNCHANGED <<engine, form, pc, call, ret, token, user_query, user_request, login_request>>

\* The window loads '/login': AuthProvider is constructed again, its token
\* read from localStorage, and the query, when enabled, fetches on mount.
LoadPage ==
    /\ navigating
    /\ navigating' = FALSE
    /\ token' = authToken
    /\ user_query' = IF authToken # "none" THEN Fetching(NewQuery) ELSE NewQuery
    /\ user_request' = IF authToken # "none" THEN Created ELSE NotRequested
    /\ login_request' = NotRequested
    /\ UNCHANGED <<engine, form, pc, call, ret, authToken>>

AuthNext ==
    \/ login
    \/ InterceptLoginRequest
    \/ InterceptUserRequest
    \/ \E newToken \in Tokens : LoginSucceeded(newToken)
    \/ \E status \in FailureStatuses : LoginFailed(status)
    \/ UserFetchSucceeded
    \/ \E status \in FailureStatuses : UserFetchFailed(status)
    \/ ClearTokenEffect
    \/ logout
    \/ ApiUnauthorized
    \/ LoadPage

FormNext ==
    \/ handleToggleScaling
    \/ ChangeMinBatchSize
    \/ ChangeMaxBatchSize
    \/ ChangeTargetConfidence
    \/ ChangeScalingFactor
    \/ handleSubmit
    \/ ToggleSucceeded
    \/ ToggleFailed

Init ==
    /\ min_batch_size = 10
    /\ max_batch_size = 200
    /\ performance_history = <<>>
    /\ pc = "idle"
    /\ call = NoCall
    /\ ret = NoValue
    /\ config = [enabled |-> FALSE, min_batch_size |-> 10,
                 max_batch_size |-> 200, target_confidence |-> 85,
                 scaling_factor |-> 12]
    /\ last_request = NoRequest
    /\ in_flight = <<>>
    /\ scaling_enabled = FALSE
    /\ token = "none"
    /\ authToken = "none"
    /\ user_query = NewQuery
    /\ user_request = NotRequested
    /\ login_request = NotRequested
    /\ navigating = FALSE

Next ==
    \/ CallPredictOptimalBatchSize
    \/ CallShouldScaleNow
    \/ CallAnalyzeBatchSizeEfficiency
    \/ CallGetScalingRecommendation
    \/ CallPredictProcessingTime
    \/ CallCalculatePerformanceScore
    \/ CallCalculateRecommendationConfidence
    \/ Return

Spec == Init /\ [][Next]_vars

\* The engine keeps nothing from one call to the next, so each operation
\* can also be called on its own.
ScaleNext == CallShouldScaleNow \/ Return

ScaleSpec == Init /\ [][ScaleNext]_vars

RecommendationNext == CallGetScalingRecommendation \/ Return

RecommendationSpec == Init /\ [][RecommendationNext]_vars

ProcessingTimeNext == CallPredictProcessingTime \/ Return

ProcessingTimeSpec == Init /\ [][ProcessingTimeNext]_vars

FormSpec == Init /\ [][FormNext]_vars

AuthSpec == Init /\ [][AuthNext]_vars

ConfidenceNext == CallCalculateRecommendationConfidence \/ Return

ConfidenceSpec == Init /\ [][ConfidenceNext]_vars

FloatNext == CallAnalyzeAverages \/ Return

FloatSpec == Init /\ [][FloatNext]_vars

RepeatNext == Next \/ CallAgain

RepeatSpec == Init /\ [][RepeatNext]_vars

ScoreNext ==
    \/ CallCalculatePerformanceScore
    \/ CallPredictOptimalBatchSize
    \/ Return

ScoreSpec == Init /\ [][ScoreNext]_vars

\* ------------------------------------------------------------------------
\* Properties
\* ------------------------------------------------------------------------
\* C1: with min_batch_size <= max_batch_size, the value returned by
\* predict_optimal_batch_size, and the recommended_batch_size of every
\* recommendation, lies in [min_batch_size, max_batch_size].
BoundsInvariant ==
    min_batch_size <= max_batch_size =>
        /\ call.op = "predict_optimal_batch_size" =>
              ret \in min_batch_size..max_batch_size
        /\ call.op = "get_scaling_recommendation" =>
              ret.recommended_batch_size \in min_batch_size..max_batch_size

\* a batch of 250 with an excellent score: 325 was cut to the upper bound
BoundsWitness ==
    /\ call.op = "predict_optimal_batch_size"
    /\ call.current_performance.batch_size = 250
    /\ call.current_performance.high_confidence_rate = 1000
    /\ call.current_performance.avg_processing_time = 0
    /\ ret = max_batch_size

\* C2: the multiplier follows the strictly descending chain on the score
\* (> 0.8: x1.3, > 0.6: x1.1, > 0.4: x1.0, > 0.2: x0.8, else x0.6, a score
\* equal to a threshold taking the lower band); the product is truncated
\* toward zero and then clamped to [min_batch_size, max_batch_size].
BandChain ==
    call.op = "predict_optimal_batch_size" =>
        LET cp == call.current_performance
            score == _calculate_performance_score(
                         cp.high_confidence_rate, cp.avg_processing_time,
                         call.target_confidence_rate,
                         call.target_processing_time, cp.stability_score)
            tenths == IF score.num * 10 > 8 * score.den THEN 13
                      ELSE IF score.num * 10 > 6 * score.den THEN 11
                      ELSE IF score.num * 10 > 4 * score.den THEN 10
                      ELSE IF score.num * 10 > 2 * score.den THEN 8
                      ELSE 6
            truncated == CHOOSE q \in 0..(2 * cp.batch_size) :
                             q * 10 <= cp.batch_size * tenths
                             /\ cp.batch_size * tenths < (q + 1) * 10
        IN  ret = IF truncated < min_batch_size THEN min_batch_size
                  ELSE IF truncated > max_batch_size THEN max_batch_size
                  ELSE truncated

\* a score of exactly 0.8 (0.6/0.9 * 0.6 + 0.3 + 0.1) took the x1.1 band,
\* and 12 * 1.1 = 13.2 was truncated to 13
BandChainWitness ==
    /\ call.op = "predict_optimal_batch_size"
    /\ call.current_performance.batch_size = 12
    /\ call.current_performance.high_confidence_rate = 600
    /\ call.current_performance.avg_processing_time = 4
    /\ call.current_performance.stability_score = 1000
    /\ call.target_confidence_rate = 900
    /\ call.target_processing_time = 4
    /\ ret = 13

\* the two veto guards of should_scale_now on the arguments of the call
VetoFires ==
    \/ call.performance_trend.stability_score < 600
    \/ call.performance_trend.latest_confidence_rate * 10
           < call.min_confidence_threshold * 5

\* the improving rule of should_scale_now on the arguments of the call
ImprovingMatches ==
    /\ call.performance_trend.confidence_trend = "improving"
    /\ call.performance_trend.time_trend \in {"improving", "stable"}
    /\ call.performance_trend.stability_score > 700

\* C3: with status "insufficient_data", should_scale_now returns
\* (false, "Insufficient data for scaling decision"), whatever the trends,
\* the confidence rate and the stability score.
InsufficientDataFirst ==
    (call.op = "should_scale_now"
        /\ call.performance_trend.status = "insufficient_data")
    => ret = <<FALSE, "Insufficient data for scaling decision">>

\* insufficient data, although the stability guard and the declining rule
\* would both match
InsufficientDataWitness ==
    /\ call.op = "should_scale_now"
    /\ call.performance_trend.status = "insufficient_data"
    /\ call.performance_trend.stability_score < 600
    /\ call.performance_trend.confidence_trend = "declining"
    /\ ret = <<FALSE, "Insufficient data for scaling decision">>

\* C4: with a status other than "insufficient_data", should_scale_now
\* returns false whenever stability_score < 0.6 or latest_confidence_rate
\* < 0.5 * min_confidence_threshold, whatever the trends.
VetoGuardsFirst ==
    (call.op = "should_scale_now"
        /\ call.performance_trend.status # "insufficient_data"
        /\ VetoFires)
    => ret[1] = FALSE

\* no scaling on a declining trend, the stability score being just under 0.6
\* (and likewise on an improving one, the confidence being critically low)
VetoGuardsWitness ==
    /\ call.op = "should_scale_now"
    /\ call.performance_trend.status = "ok"
    /\ call.performance_trend.stability_score \in 500..599
    /\ call.performance_trend.latest_confidence_rate = 1000
    /\ call.performance_trend.confidence_trend = "declining"
    /\ ret[1] = FALSE

\* C5: when no veto guard fires and the improving rule does not match, a
\* declining confidence trend or a declining time trend gives
\* (true, "Declining performance requires adjustment"); so does the trend
\* {ok, declining, stable, 0.7, 0.8} under the default threshold.
DecliningScales ==
    call.op = "should_scale_now" =>
        /\ (/\ call.performance_trend.status # "insufficient_data"
            /\ ~VetoFires
            /\ ~ImprovingMatches
            /\ \/ call.performance_trend.confidence_trend = "declining"
               \/ call.performance_trend.time_trend = "declining")
           => ret = <<TRUE, "Declining performance requires adjustment">>
        /\ (/\ call.performance_trend =
                  [status |-> "ok", confidence_trend |-> "declining",
                   time_trend |-> "stable", latest_confidence_rate |-> 700,
                   stability_score |-> 800]
            /\ call.min_confidence_threshold = 800)
           => ret = <<TRUE, "Declining performance requires adjustment">>

\* only the time trend declines, and the call scales
DecliningWitness ==
    /\ call.op = "should_scale_now"
    /\ call.performance_trend.status = "ok"
    /\ call.performance_trend.confidence_trend = "stable"
    /\ call.performance_trend.time_trend = "declining"
    /\ ~VetoFires
    /\ ret = <<TRUE, "Declining performance requires adjustment">>

\* C6: when no veto guard fires, should_scale_now returns
\* (true, "Improving performance trend with good stability") exactly when
\* the confidence trend improves, the time trend improves or is stable and
\* stability_score > 0.7; an improving confidence trend with a stability
\* score in [0.6, 0.7] and a time trend that does not decline does not scale.
ImprovingScales ==
    (call.op = "should_scale_now"
        /\ call.performance_trend.status # "insufficient_data"
        /\ ~VetoFires)
    => /\ ret = <<TRUE, "Improving performance trend with good stability">>
            <=> ImprovingMatches
       /\ (/\ call.performance_trend.confidence_trend = "improving"
           /\ call.performance_trend.stability_score \in 600..700
           /\ call.performance_trend.time_trend # "declining")
          => ret[1] = FALSE

\* an improving trend with a stability score of exactly 0.7 does not scale
ImprovingWitness ==
    /\ call.op = "should_scale_now"
    /\ call.performance_trend.status = "ok"
    /\ call.performance_trend.confidence_trend = "improving"
    /\ call.performance_trend.time_trend = "stable"
    /\ call.performance_trend.stability_score = 700
    /\ ~VetoFires
    /\ ret[1] = FALSE

\* C7: when no veto guard fires and both trends are stable,
\* should_scale_now returns true if and only if latest_confidence_rate
\* > 0.95 or latest_confidence_rate < 0.7 * min_confidence_threshold.
StableExtremes ==
    (call.op = "should_scale_now"
        /\ call.performance_trend.status # "insufficient_data"
        /\ ~VetoFires
        /\ call.performance_trend.confidence_trend = "stable"
        /\ call.performance_trend.time_trend = "stable")
    => (ret[1] = TRUE
          <=> \/ call.performance_trend.latest_confidence_rate > 950
              \/ call.performance_trend.latest_confidence_rate * 10
                     < call.min_confidence_threshold * 7)

\* stable trends with a confidence of exactly 0.95 do not scale
StableExtremesWitness ==
    /\ call.op = "should_scale_now"
    /\ call.performance_trend.status = "ok"
    /\ call.performance_trend.confidence_trend = "stable"
    /\ call.performance_trend.time_trend = "stable"
    /\ call.performance_trend.latest_confidence_rate = 950
    /\ call.performance_trend.stability_score >= 600
    /\ ret[1] = FALSE

\* one of rules 1 to 6 of should_scale_now matches the arguments of the call
SomeRuleMatches ==
    \/ call.performance_trend.status = "insufficient_data"
    \/ VetoFires
    \/ ImprovingMatches
    \/ call.performance_trend.confidence_trend = "declining"
    \/ call.performance_trend.time_trend = "declining"
    \/ /\ call.performance_trend.confidence_trend = "stable"
       /\ call.performance_trend.time_trend = "stable"
       /\ \/ call.performance_trend.latest_confidence_rate > 950
          \/ call.performance_trend.latest_confidence_rate * 10
                 < call.min_confidence_threshold * 7

\* C8: should_scale_now returns (false, "No clear scaling trigger
\* identified") for the inputs that match none of rules 1 to 6, and for
\* those only.
DefaultRule ==
    call.op = "should_scale_now" =>
        /\ ~SomeRuleMatches
              => ret = <<FALSE, "No clear scaling trigger identified">>
        /\ SomeRuleMatches
              => ret[2] # "No clear scaling trigger identified"

\* a stable confidence trend with an improving time trend and a very high
\* confidence matches no rule
DefaultRuleWitness ==
    /\ call.op = "should_scale_now"
    /\ call.performance_trend.status = "ok"
    /\ call.performance_trend.confidence_trend = "stable"
    /\ call.performance_trend.time_trend = "improving"
    /\ call.performance_trend.latest_confidence_rate = 1000
    /\ call.performance_trend.stability_score = 1000
    /\ ret = <<FALSE, "No clear scaling trigger identified">>

\* the stability guard, the low-confidence guard and the two extremes of
\* the stable trends, as the rule that fires on the arguments of the call
StabilityGuardFires ==
    /\ call.performance_trend.status # "insufficient_data"
    /\ call.performance_trend.stability_score < 600

LowConfidenceGuardFires ==
    /\ call.performance_trend.status # "insufficient_data"
    /\ call.performance_trend.stability_score >= 600
    /\ call.performance_trend.latest_confidence_rate * 10
           < call.min_confidence_threshold * 5

StableRuleReached ==
    /\ call.performance_trend.status # "insufficient_data"
    /\ ~VetoFires
    /\ call.performance_trend.confidence_trend = "stable"
    /\ call.performance_trend.time_trend = "stable"

VeryHighFires ==
    StableRuleReached /\ call.performance_trend.latest_confidence_rate > 950

LowFires ==
    /\ StableRuleReached
    /\ call.performance_trend.latest_confidence_rate <= 950
    /\ call.performance_trend.latest_confidence_rate * 10
           < call.min_confidence_threshold * 7

\* C9 as stated: the reason is the fixed text of the rule that fired, with
\* nothing appended.
ReasonFixedText ==
    call.op = "should_scale_now" =>
        /\ StabilityGuardFires => ret[2] = "Performance too unstable"
        /\ LowConfidenceGuardFires
              => ret[2] = "Confidence too low for scaling"
        /\ VeryHighFires
              => ret[2] = "Very high confidence allows scaling up"
        /\ LowFires => ret[2] = "Low confidence requires scaling down"

\* C9 as amended: the reason of the stability guard is "Performance too
\* unstable" followed by " (stability: S)", S the stability score with two
\* decimals; that of the low-confidence guard is "Confidence too low for
\* scaling" followed by " (P)", P the confidence rate as a percentage with
\* one decimal; those of the stable extremes are "Very high confidence
\* allows for scaling up" and "Low confidence requires scaling down".
ReasonWithValues ==
    call.op = "should_scale_now" =>
        /\ StabilityGuardFires
              => ret[2] = "Performance too unstable" \o " (stability: "
                     \o Format2f(call.performance_trend.stability_score)
                     \o ")"
        /\ LowConfidenceGuardFires
              => ret[2] = "Confidence too low for scaling" \o " ("
                     \o FormatPercent1(
                            call.performance_trend.latest_confidence_rate)
                     \o ")"
        /\ VeryHighFires
              => ret[2] = "Very high confidence allows for scaling up"
        /\ LowFires => ret[2] = "Low confidence requires scaling down"

\* the stability guard fired on a stability score of 0.4
ReasonWitness ==
    /\ call.op = "should_scale_now"
    /\ call.performance_trend.status = "ok"
    /\ call.performance_trend.stability_score = 400
    /\ ret = <<FALSE, "Performance too unstable (stability: 0.40)">>

\* C10: the action of a recommendation is "maintain" whenever
\* |recommended - current| / current <= 0.1, "increase" exactly when
\* recommended > 1.1 * current and "decrease" exactly when
\* recommended < 0.9 * current, recommended being the value of
\* predict_optimal_batch_size for the same snapshot.
DeadBand ==
    call.op = "get_scaling_recommendation" =>
        LET current == call.current_performance.batch_size
            recommended == ret.recommended_batch_size
            distance == IF recommended > current THEN recommended - current
                        ELSE current - recommended
        IN  /\ recommended =
                   predict_optimal_batch_size(call.current_performance,
                                              900, 4)
            /\ distance * 10 <= current => ret.action = "maintain"
            /\ ret.action = "increase" <=> recommended * 10 > current * 11
            /\ ret.action = "decrease" <=> recommended * 10 < current * 9
            /\ ret.action \in {"maintain", "increase", "decrease"}

\* a recommended size of exactly 1.1 times the current one is maintained
DeadBandWitness ==
    /\ call.op = "get_scaling_recommendation"
    /\ call.current_performance.batch_size = 10
    /\ ret.recommended_batch_size = 11
    /\ ret.action = "maintain"

\* C11: for an empty history, get_scaling_recommendation returns a
\* recommendation, and its action is "maintain", for every valid current
\* snapshot.
EmptyHistoryMaintains ==
    (call.op = "get_scaling_recommendation"
        /\ call.historical_data = <<>>)
    => /\ pc = "returned"
       /\ ret.action = "maintain"

\* C12: analyze_batch_size_efficiency returns status "no_data" if and only
\* if the history is empty, "insufficient_data" if and only if it is not
\* empty and no batch size occurs in 2 snapshots or more, and "analyzed"
\* otherwise.
AnalysisStatus ==
    call.op = "analyze_batch_size_efficiency" =>
        LET history == call.performance_data
            occurrences(b) ==
                Cardinality({i \in 1..Len(history) :
                                 history[i].batch_size = b})
            repeated == \E i \in 1..Len(history) :
                            occurrences(history[i].batch_size) >= 2
        IN  /\ ret.status = "no_data" <=> Len(history) = 0
            /\ ret.status = "insufficient_data"
                   <=> (Len(history) > 0 /\ ~repeated)
            /\ ret.status = "analyzed" <=> repeated
            /\ ret.status \in {"no_data", "insufficient_data", "analyzed"}

\* two snapshots of two different batch sizes are not enough
AnalysisStatusWitness ==
    /\ call.op = "analyze_batch_size_efficiency"
    /\ Len(call.performance_data) = 2
    /\ call.performance_data[1].batch_size
           # call.performance_data[2].batch_size
    /\ ret.status = "insufficient_data"

TimeFloor ==
    /\ (call.op = "predict_processing_time" /\ call.batch_size >= 1)
       => (pc = "returned" /\ ret.num * 10 >= ret.den)
    /\ (call.op = "get_scaling_recommendation" /\ pc = "returned")
       => ret.predicted_processing_time.num * 10
              >= ret.predicted_processing_time.den

\* C15: for recent.batch_size > 0, predict_processing_time equals
\* max(0.1, (batch_size * t / recent.batch_size + 0.1 * t) * f), t being
\* recent.avg_processing_time, f = 1 + (batch_size / recent.batch_size - 1)
\* * 0.1 if batch_size > 1.5 * recent.batch_size and f = 1 otherwise; for
\* batch_size 200 and recent {batch_size 50, avg_processing_time 1.0} it
\* is 5.33.
TimeFormula ==
    (call.op = "predict_processing_time"
        /\ call.recent_performance.batch_size > 0)
    =>  LET b == call.batch_size
            r == call.recent_performance.batch_size
            \* avg_processing_time in half-seconds
            t == call.recent_performance.avg_processing_time
            \* (b * t / r + 0.1 * t) = t * (10 b + r) / (20 r) seconds
            penalised == 2 * b > 3 * r
            \* f = (9 r + b) / (10 r)
            numerator == IF penalised THEN t * (10 * b + r) * (9 * r + b)
                         ELSE t * (10 * b + r)
            denominator == IF penalised THEN 200 * r * r ELSE 20 * r
            expected == IF numerator * 10 < denominator
                        THEN Rat(1, 10)
                        ELSE Rat(numerator, denominator)
        IN  /\ pc = "returned"
            /\ ret = expected
            /\ (b = 200 /\ r = 50 /\ t = 2) => ret = Rat(533, 100)

\* the documented scenario: 200 items after a batch of 50 in 1.0 s
TimeFormulaWitness ==
    /\ call.op = "predict_processing_time"
    /\ call.batch_size = 200
    /\ call.recent_performance = [batch_size |-> 50,
                                  avg_processing_time |-> 2]
    /\ ret = [num |-> 533, den |-> 100]

\* ------------------------------------------------------------------------
\* C16: with processing_time, stability_score and both targets held fixed,
\* _calculate_performance_score is non-decreasing in confidence_rate: no
\* lower rate of [0, 1] gives a higher score than the rate of the call.
\* ------------------------------------------------------------------------
ScoreMonotone ==
    (call.op = "_calculate_performance_score" /\ pc = "returned")
    => \A c1 \in ScoreRates :
          c1 <= call.confidence_rate
          => ~RBelow(ret,
                     _calculate_performance_score(
                        c1, call.processing_time, call.target_confidence,
                        call.target_time, call.stability_score))

\* a call with a rate above its target, where a lower rate gives a
\* strictly lower score
ScoreMonotoneWitness ==
    /\ call.op = "_calculate_performance_score"
    /\ pc = "returned"
    /\ call.confidence_rate > call.target_confidence
    /\ \E c1 \in ScoreRates :
          /\ c1 < call.target_confidence
          /\ RBelow(_calculate_performance_score(
                        c1, call.processing_time, call.target_confidence,
                        call.target_time, call.stability_score),
                    ret)

\* ------------------------------------------------------------------------
\* C17: the performance score is min(1, 0.6 * min(confidence_rate /
\* target_confidence, 1) + 0.3 * t + 0.1 * stability_score) with t = 1.0
\* when processing_time <= target_time and t never below 0.1 otherwise, so
\* it lies in [0, 1]; for the snapshot {50, 0.85, 1.5 s, 0.9} with targets
\* (0.9, 2.0 s) and bounds [10, 200] it exceeds 0.8 and
\* predict_optimal_batch_size returns 65.
\* ------------------------------------------------------------------------
\* the stated expression for a time component of t
ScoreWithTime(t) ==
    LET c == IF call.confidence_rate >= call.target_confidence
             THEN Rat(1, 1)
             ELSE Rat(call.confidence_rate, call.target_confidence)
        sum == RAdd(RAdd(RMul(Rat(6, 10), c), RMul(Rat(3, 10), t)),
                    RMul(Rat(1, 10), Rat(call.stability_score, 1000)))
    IN  IF RBelow(Rat(1, 1), sum) THEN Rat(1, 1) ELSE sum

IsScenarioCall ==
    /\ call.target_confidence = 900
    /\ call.target_time = 4
    /\ call.confidence_rate = ScenarioSnapshot.high_confidence_rate
    /\ call.processing_time = ScenarioSnapshot.avg_processing_time
    /\ call.stability_score = ScenarioSnapshot.stability_score

ScoreFormula ==
    /\ (call.op = "_calculate_performance_score" /\ pc = "returned")
       => /\ call.processing_time <= call.target_time
             => ret = ScoreWithTime(Rat(1, 1))
          /\ call.processing_time > call.target_time
             => ~RBelow(ret, ScoreWithTime(Rat(1, 10)))
          /\ ret.num >= 0
          /\ ret.num <= ret.den
          /\ IsScenarioCall => ret.num * 10 > 8 * ret.den
    /\ ( /\ call.op = "predict_optimal_batch_size"
         /\ call.current_performance = ScenarioSnapshot
         /\ call.target_confidence_rate = 900
         /\ call.target_processing_time = 4
         /\ min_batch_size = 10
         /\ max_batch_size = 200 )
       => (pc = "returned" /\ ret = 65)

\* a processing time so far over the target that the floor of 0.1 is the
\* time component, in a score below 1
ScoreFormulaWitness ==
    /\ call.op = "_calculate_performance_score"
    /\ pc = "returned"
    /\ call.processing_time > 3 * call.target_time
    /\ ret = ScoreWithTime(Rat(1, 10))
    /\ ret.num < ret.den

\* the documented scenario is scored
ScenarioScored ==
    /\ call.op = "_calculate_performance_score"
    /\ pc = "returned"
    /\ IsScenarioCall

\* and sized
ScenarioSized ==
    /\ call.op = "predict_optimal_batch_size"
    /\ call.current_performance = ScenarioSnapshot
    /\ call.target_confidence_rate = 900
    /\ ret = 65

\* ------------------------------------------------------------------------
\* C18: with the current snapshot and the recommended size held fixed,
\* _calculate_recommendation_confidence is non-decreasing in the number of
\* history snapshots, strictly increasing per added snapshot below 10, and
\* constant from 10 snapshots on.
\* ------------------------------------------------------------------------
\* the confidence of the call with a history of another length
ConfidenceWithLength(n) ==
    _calculate_recommendation_confidence(
        call.current_performance, call.recommended_size, RepeatedHistory(n))

ConfidenceMonotone ==
    ( /\ call.op = "_calculate_recommendation_confidence"
      /\ pc = "returned"
      /\ Len(call.historical_data) >= 1 )
    => LET n == Len(call.historical_data)
       IN  /\ ~RBelow(ret, ConfidenceWithLength(n - 1))
           /\ n <= 10 => RBelow(ConfidenceWithLength(n - 1), ret)
           /\ n > 10 => ret = ConfidenceWithLength(n - 1)

\* the tenth snapshot still adds to the confidence, the eleventh does not
ConfidenceMonotoneWitness ==
    /\ call.op = "_calculate_recommendation_confidence"
    /\ pc = "returned"
    /\ Len(call.historical_data) = 10
    /\ RBelow(ConfidenceWithLength(9), ret)
    /\ ret = ConfidenceWithLength(11)
    /\ ret.num < ret.den

\* ------------------------------------------------------------------------
\* C19: a configuration with min_batch_size > max_batch_size or with a
\* target confidence <= 0 is rejected when it is configured: the
\* ScalingControls form never posts one.
\* ------------------------------------------------------------------------
BadConfigurationRejected ==
    last_request.url = "/batches/scaling/configure"
    => /\ last_request.body.min_batch_size
             <= last_request.body.max_batch_size
       /\ last_request.body.target_confidence > 0

\* ------------------------------------------------------------------------
\* C20: for every input in the documented ranges (batch_size > 0 in a
\* snapshot, targets > 0, rates and scores in [0, 1], times >= 0, any
\* history, the empty one included) no engine operation fails: a call
\* that raised had an argument outside these ranges.
\* ------------------------------------------------------------------------
SnapshotInRange(snapshot) == snapshot.batch_size > 0

InDocumentedRange ==
    CASE call.op = "predict_optimal_batch_size" ->
            /\ SnapshotInRange(call.current_performance)
            /\ call.target_confidence_rate > 0
            /\ call.target_processing_time > 0
      [] call.op = "_calculate_performance_score" ->
            /\ call.target_confidence > 0
            /\ call.target_time > 0
      [] call.op = "analyze_batch_size_efficiency" ->
            \A i \in 1..Len(call.performance_data) :
                /\ SnapshotInRange(call.performance_data[i])
                /\ call.performance_data[i].avg_processing_time >= 0
      [] call.op = "predict_processing_time" ->
            SnapshotInRange(call.recent_performance)
      [] call.op = "_calculate_recommendation_confidence" ->
            SnapshotInRange(call.current_performance)
      [] call.op = "get_scaling_recommendation" ->
            SnapshotInRange(call.current_performance)
      [] OTHER -> TRUE

NoFailure == pc = "raised" => ~InDocumentedRange

\* an analysed history whose batches of one size took 0 seconds on
\* average: the division of line 134 is by the floor of 0.1
NoFailureWitness ==
    /\ call.op = "analyze_batch_size_efficiency"
    /\ pc = "returned"
    /\ ret.status = "analyzed"
    /\ \E b \in DOMAIN ret.efficiency_by_batch_size :
          ret.efficiency_by_batch_size[b].avg_processing_time.num = 0

\* calls with an argument outside the ranges do fail
FailureReached == pc = "raised"

ConfidenceProduct ==
    LET current == call.current_performance.batch_size
        change == Abs(call.recommended_size - current)
        samples == Min(Len(call.historical_data), 10)
        change_factor == IF 2 * change > current THEN 7
                         ELSE IF 5 * change > current THEN 9
                         ELSE 10
        rate_factor ==
            IF call.current_performance.high_confidence_rate < 500
            THEN 8 ELSE 10
    IN  samples * change_factor * rate_factor

ConfidenceFormula ==
    (call.op = "_calculate_recommendation_confidence" /\ pc = "returned")
    => /\ ret.num * 1000 = ConfidenceProduct * ret.den
       /\ ret.num >= 0
       /\ ret.num <= ret.den
       /\ call.historical_data = <<>> => ret.num = 0

\* a change of more than 50% at a low rate, on a history of 5: 0.5 * 0.7
\* * 0.8 = 0.28
ConfidenceFormulaWitness ==
    /\ call.op = "_calculate_recommendation_confidence"
    /\ pc = "returned"
    /\ Len(call.historical_data) = 5
    /\ 2 * Abs(call.recommended_size - call.current_performance.batch_size)
          > call.current_performance.batch_size
    /\ call.current_performance.high_confidence_rate < 500
    /\ ret = Rat(28, 100)

\* ------------------------------------------------------------------------
\* C23: the performance_score field of a recommendation is the composite
\* score predict_optimal_batch_size computed for the same snapshot, the
\* snapshot's stability_score included, so the reported score and the
\* recommended size agree with the band table.
\* ------------------------------------------------------------------------
ScoreFieldConsistent ==
    (call.op = "get_scaling_recommendation" /\ pc = "returned")
    => /\ ret.performance_score
            = _calculate_performance_score(
                  call.current_performance.high_confidence_rate,
                  call.current_performance.avg_processing_time,
                  900, 4, call.current_performance.stability_score)
       /\ ret.recommended_batch_size
            = apply_constraints(
                  size_for_score(ret.performance_score,
                                 call.current_performance.batch_size))

\* ------------------------------------------------------------------------
\* C24: in a recommendation, action, reason, recommended_batch_size,
\* predicted_processing_time and performance_score depend only on the
\* current snapshot and the bounds: a call agrees on them with the call on
\* the same snapshot and the empty history, and so with the call on any
\* other history; only confidence_score and efficiency_analysis differ.
\* ------------------------------------------------------------------------
SnapshotFields ==
    {"action", "reason", "recommended_batch_size",
     "predicted_processing_time", "performance_score"}

HistoryIgnored ==
    (call.op = "get_scaling_recommendation" /\ pc = "returned")
    => LET other == get_scaling_recommendation(call.current_performance,
                                               <<>>)
       IN  \A field \in SnapshotFields : ret[field] = other[field]

\* a history that changes the two other fields
HistoryIgnoredWitness ==
    /\ call.op = "get_scaling_recommendation"
    /\ pc = "returned"
    /\ ret.action = "decrease"
    /\ LET other == get_scaling_recommendation(call.current_performance,
                                               <<>>)
       IN  /\ ret.confidence_score # other.confidence_score
           /\ ret.efficiency_analysis # other.efficiency_analysis
           /\ ret.efficiency_analysis.status = "analyzed"

\* ------------------------------------------------------------------------
\* C25: for a current batch size within [min_batch_size, max_batch_size],
\* a recommendation's action is "increase" only for a score > 0.8 and
\* "decrease" only for a score <= 0.4, and "maintain" for every score in
\* (0.4, 0.8]; in every case "increase" comes with a recommended size
\* above the current one and "decrease" with one below it.
\* ------------------------------------------------------------------------
\* the score predict_optimal_batch_size computes inside the recommendation
SizingScore ==
    _calculate_performance_score(
        call.current_performance.high_confidence_rate,
        call.current_performance.avg_processing_time,
        900, 4, call.current_performance.stability_score)

CurrentWithinBounds ==
    /\ call.current_performance.batch_size >= min_batch_size
    /\ call.current_performance.batch_size <= max_batch_size

ActionByScore ==
    (call.op = "get_scaling_recommendation" /\ pc = "returned")
    => /\ CurrentWithinBounds
          => /\ ret.action = "increase"
                  => RBelow(Rat(8, 10), SizingScore)
             /\ ret.action = "decrease"
                  => ~RBelow(Rat(4, 10), SizingScore)
             /\ (RBelow(Rat(4, 10), SizingScore)
                    /\ ~RBelow(Rat(8, 10), SizingScore))
                  => ret.action = "maintain"
       /\ ret.action = "increase"
          => ret.recommended_batch_size > call.current_performance.batch_size
       /\ ret.action = "decrease"
          => ret.recommended_batch_size < call.current_performance.batch_size

\* a score in the x1.1 band, whose size of 11 for 10 is maintained
ActionByScoreWitness ==
    /\ call.op = "get_scaling_recommendation"
    /\ pc = "returned"
    /\ CurrentWithinBounds
    /\ RBelow(Rat(6, 10), SizingScore)
    /\ ~RBelow(Rat(8, 10), SizingScore)
    /\ ret.recommended_batch_size > call.current_performance.batch_size
    /\ ret.action = "maintain"

\* ------------------------------------------------------------------------
\* C26: the status, the set of analysed batch sizes and each size's
\* sample_count and averages returned by analyze_batch_size_efficiency are
\* the same for every permutation of the history.
\* ------------------------------------------------------------------------
\* the analyses of the permutations of the history of the call
PermutedAnalyses ==
    LET pd == call.performance_data
    IN  {analyze_batch_size_efficiency_averages(
             [i \in 1..Len(pd) |-> pd[f[i]]]) :
         f \in Permutations(1..Len(pd))}

IsAveragesCall ==
    /\ call.op = "analyze_batch_size_efficiency (averages)"
    /\ pc = "returned"

LastPlace(x) == Pow2(Max(BitLength(x) - MantissaBits, 0))

AveragesClose(a, b, n) ==
    \A field \in {"avg_confidence_rate", "avg_processing_time",
                   "avg_success_rate"} :
        Abs(a[field] - b[field])
            <= n * LastPlace(Max(a[field], b[field]))

TimeMonotone ==
    ( /\ call.op = "predict_processing_time"
      /\ pc = "returned"
      /\ call.recent_performance.batch_size > 0 )
    => \A b1 \in BatchSizes :
          b1 <= call.batch_size
          => ~RBelow(ret,
                     predict_processing_time(b1, call.recent_performance))

\* a request above 1.5 times the recent size, and a smaller one at or
\* under it that is predicted to take strictly less
TimeMonotoneWitness ==
    /\ call.op = "predict_processing_time"
    /\ pc = "returned"
    /\ call.recent_performance.batch_size > 0
    /\ larger_batch(call.batch_size, call.recent_performance.batch_size)
    /\ \E b1 \in BatchSizes :
          /\ b1 < call.batch_size
          /\ ~larger_batch(b1, call.recent_performance.batch_size)
          /\ 2 * b1 = 3 * call.recent_performance.batch_size
          /\ RBelow(predict_processing_time(b1, call.recent_performance),
                    ret)

\* ------------------------------------------------------------------------
\* C28: in the ScalingControls form, whenever no enable or disable request
\* is in flight, the form's enabled flag equals the state the backend last
\* accepted: a failed toggle leaves the flag as it was before the click,
\* and after two toggles the flag is the state of the request the backend
\* processed last.
\* ------------------------------------------------------------------------
FlagMatchesBackend ==
    in_flight = <<>> => config.enabled = scaling_enabled

\* C29: in every state reached through login, logout, the success or the
\* failure of the current-user fetch and a 401 response, ProtectedRoute
\* renders its children only when AuthProvider holds a token and a loaded
\* user; while the fetch of a user not loaded yet is in progress with a
\* token it renders the spinner; in every other state it redirects to
\* /login.
UserLoaded == token # "none" /\ user_query.data = "user"

UserFetchPending == token # "none" /\ user_query.data = "none" /\ user_query.fetching

RouteRendering ==
    /\ ProtectedRoute = "children" => UserLoaded
    /\ UserFetchPending => ProtectedRoute = "spinner"
    /\ ~UserLoaded /\ ~UserFetchPending => ProtectedRoute = "/login"

\* The current-user fetch has failed and the token is still held: the
\* route redirects although there is a token.
RouteRenderingWitness ==
    /\ token # "none"
    /\ user_query.error
    /\ user_query.data = "none"
    /\ ProtectedRoute = "/login"

\* C30: the step of a login success, of logout and of the effect that
\* completes a failed current-user fetch leaves the token of AuthProvider
\* and the entry 'authToken' equal; after logout and after that effect both
\* are absent, and a request sent while the token is absent carries no
\* Authorization header.
TokenAgreement ==
    [][/\ (\/ \E newToken \in Tokens : LoginSucceeded(newToken)
           \/ logout
           \/ ClearTokenEffect) => token' = authToken'
       /\ (logout \/ ClearTokenEffect) => token' = "none" /\ authToken' = "none"
       /\ token = "none" /\ InterceptLoginRequest => login_request'.authorization = "none"
       /\ token = "none" /\ InterceptUserRequest => user_request'.authorization = "none"]_vars

\* A failed fetch has been completed by the effect, and the login request
\* sent afterwards carries no header.
TokenAgreementWitness ==
    /\ user_query.error
    /\ token = "none"
    /\ authToken = "none"
    /\ login_request.state = "sent"
    /\ login_request.authorization = "none"

====
